---------------------------- MODULE Spec2Model ----------------------------
(***************************************************************************)
(* Dynamic Time Warping as implemented in dtw.ipynb: dtw_table(x, y) fills *)
(* the cumulative cost table, dtw(x, y, table) backtracks through it.      *)
(*                                                                         *)
(* Observations are scalars (integers); scipy's euclidean distance of two  *)
(* scalars is |a - b|.  Table cells are float64 in the notebook; for       *)
(* integer observations of this size every sum is an exactly representable *)
(* integer, so cells are modelled as integers plus the value Inf that      *)
(* stands for numpy.inf (greater than every finite cell, absorbing under   *)
(* addition).                                                              *)
(*                                                                         *)
(* xdim[k], ydim[k] are the lengths of the observations x[k], y[k] as      *)
(* 1-d arrays: 1 for a scalar; an observation of length d > 1 is the       *)
(* vector (v, 0, ..., 0) with v = x[k], so that the distance of two        *)
(* vectors of one length is still |v - w|.  evals lists the cells whose    *)
(* distance dtw_table has asked for, in the order of the calls.            *)
(***************************************************************************)
EXTENDS Integers, Sequences, FiniteSets

VARIABLES x, y, xdim, ydim, table, evals, pc, ti, tj, i, j, step, path, err

vars == <<x, y, xdim, ydim, table, evals, pc, ti, tj, i, j, step, path, err>>

---------------------------------------------------------------------------
(* Bounds of the model *)

\* longest input sequence that is enumerated
MaxLen == 3
\* observations are drawn from 0..MaxObs
MaxObs == 1
\* dtw's loop is cut off once the path holds this many pairs
MaxPathLen == 20
\* longest input sequence of vector observations that is enumerated
DimMaxLen == 2
\* caller-supplied tables: len(x), len(y) and the largest finite cell
BTMaxNx == 2
BTMaxNy == 1
BTMaxVal == 1

---------------------------------------------------------------------------
(* Values *)

\* numpy.inf
Inf == 1000000

\* the local `step` of dtw before its first assignment
Unbound == <<>>

Abs(n) == IF n < 0 THEN -n ELSE n

\* float addition restricted to the values that occur: inf + d = inf
Plus(a, b) == IF a = Inf \/ b = Inf THEN Inf ELSE a + b

\* Python's built-in min of three numbers
Min3(a, b, c) == IF a <= b /\ a <= c THEN a ELSE IF b <= c THEN b ELSE c

\* scipy.spatial.distance.euclidean on two scalars
\* (as it would be with the plain difference)
Dist_Signed(a, b) == a - b

Dist(a, b) == Abs(a - b)

\* euclidean subtracts the two arrays: numpy raises ValueError when their
\* lengths differ and neither is 1 (no broadcasting)
\* (as it would be with a distance that pairs components up to the shorter)
DistFails_Never(da, db) == FALSE

DistFails(da, db) == da # db /\ da # 1 /\ db # 1

Scalars(n) == [k \in 1..n |-> 1]

\* the notebook's example inputs
ExampleX == <<0, 4, 4, 0, -4, -4, 0>>
ExampleY == <<1, 3, 4, 3, 1, -1, -2, -1, 0>>

Obs == 0..MaxObs

SeqsUpTo(S, n) == UNION {[1..k -> S] : k \in 0..n}

Inputs == (SeqsUpTo(Obs, MaxLen) \X SeqsUpTo(Obs, MaxLen)) \cup {<<ExampleX, ExampleY>>}

Nx == Len(x)
Ny == Len(y)

Cells(nx, ny) == (0..nx) \X (0..ny)

---------------------------------------------------------------------------
(* dtw_table *)

\* numpy.zeros((nx+1, ny+1)); table[1:, 0] = inf; table[0, 1:] = inf
\* (as it would be with table[0:, 0] = inf)
InitTable_ColumnFromZero(nx, ny) ==
    [c \in Cells(nx, ny) |-> IF c[1] = 0 \/ c[2] = 0 THEN Inf ELSE 0]

\* (as it would be without table[0, 1:] = inf)
InitTable_NoTopRow(nx, ny) ==
    [c \in Cells(nx, ny) |-> IF c[1] >= 1 /\ c[2] = 0 THEN Inf ELSE 0]

InitTable(nx, ny) ==
    [c \in Cells(nx, ny) |->
        IF (c[1] >= 1 /\ c[2] = 0) \/ (c[1] = 0 /\ c[2] >= 1) THEN Inf ELSE 0]

\* d + min(table[i-1, j], table[i, j-1], table[i-1, j-1])
\* (as it would be with the diagonal neighbour left out of min)
CellValue_NoDiagonal(t, xs, ys, a, b) ==
    Plus(Dist(xs[a], ys[b]),
         IF t[<<a-1, b>>] <= t[<<a, b-1>>] THEN t[<<a-1, b>>] ELSE t[<<a, b-1>>])

\* (as it would be with the left neighbour left out of min)
CellValue_NoLeft(t, xs, ys, a, b) ==
    Plus(Dist(xs[a], ys[b]),
         IF t[<<a-1, b>>] <= t[<<a-1, b-1>>] THEN t[<<a-1, b>>] ELSE t[<<a-1, b-1>>])

CellValue(t, xs, ys, a, b) ==
    Plus(Dist(xs[a], ys[b]),
         Min3(t[<<a-1, b>>], t[<<a, b-1>>], t[<<a-1, b-1>>]))

\* for i in range(1, nx+1): for j in range(1, ny+1): the cell after (a, b)
\* (as it would be with an inner loop that does not start again at column 1)
NextCell_NoColumnRestart(a, b, ny) == IF b < ny THEN <<a, b + 1>> ELSE <<a + 1, b>>

NextCell(a, b, ny) == IF b < ny THEN <<a, b + 1>> ELSE <<a + 1, 1>>

\* first cell of the nested loops; with ny = 0 the inner loop has no iteration
FirstCell(nx, ny) == IF ny >= 1 THEN <<1, 1>> ELSE <<nx + 1, 1>>

TableInit ==
    /\ pc = "start"
    /\ table' = InitTable(Nx, Ny)
    /\ ti' = FirstCell(Nx, Ny)[1]
    /\ tj' = FirstCell(Nx, Ny)[2]
    /\ pc' = "fill"
    /\ UNCHANGED <<x, y, xdim, ydim, evals, i, j, step, path, err>>

\* one iteration of the inner loop; an exception of the distance leaves
\* dtw_table at once
TableFill ==
    /\ pc = "fill"
    /\ ti <= Nx
    /\ evals' = Append(evals, <<ti, tj>>)
    /\ IF DistFails(xdim[ti], ydim[tj])
       THEN /\ pc' = "error"
            /\ err' = "ValueError"
            /\ UNCHANGED <<table, ti, tj>>
       ELSE /\ table' = [table EXCEPT ![<<ti, tj>>] = CellValue(table, x, y, ti, tj)]
            /\ ti' = NextCell(ti, tj, Ny)[1]
            /\ tj' = NextCell(ti, tj, Ny)[2]
            /\ UNCHANGED <<pc, err>>
    /\ UNCHANGED <<x, y, xdim, ydim, i, j, step, path>>

TableReturn ==
    /\ pc = "fill"
    /\ ti > Nx
    /\ pc' = "tabled"
    /\ UNCHANGED <<x, y, xdim, ydim, table, evals, ti, tj, i, j, step, path, err>>

---------------------------------------------------------------------------
(* dtw *)

\* numpy index k on an axis of length n: negative indices count from the end
InRange(k, n) == -n <= k /\ k < n
Norm(k, n) == IF k < 0 THEN k + n ELSE k

\* table[a, b] for a table of shape (nx+1, ny+1)
Lookup(t, nx, ny, a, b) == t[<<Norm(a, nx + 1), Norm(b, ny + 1)>>]

\* the three reads of one iteration raise IndexError iff an index is out of range
ReadsOK(nx, ny, a, b) ==
    /\ InRange(a, nx + 1) /\ InRange(a - 1, nx + 1)
    /\ InRange(b, ny + 1) /\ InRange(b - 1, ny + 1)

\* while i > 0 or j > 0
\* (as it would be with >= for >)
LoopCond_Geq(a, b) == a >= 0 \/ b >= 0

LoopCond(a, b) == a > 0 \/ b > 0

\* the three `if table[..] < minval` blocks; st is `step` on entry
\* (as it would be with the diagonal block moved to the front)
Backstep_DiagonalFirst(t, nx, ny, a, b, st) ==
    LET v3 == Lookup(t, nx, ny, a - 1, b - 1)
        m3 == IF v3 < Inf THEN v3 ELSE Inf
        s3 == IF v3 < Inf THEN <<a - 1, b - 1>> ELSE st
        v1 == Lookup(t, nx, ny, a - 1, b)
        m1 == IF v1 < m3 THEN v1 ELSE m3
        s1 == IF v1 < m3 THEN <<a - 1, b>> ELSE s3
        v2 == Lookup(t, nx, ny, a, b - 1)
    IN  IF v2 < m1 THEN <<a, b - 1>> ELSE s1

\* (as it would be without the three `minval = ...` updates)
Backstep_NoMinvalUpdate(t, nx, ny, a, b, st) ==
    LET v1 == Lookup(t, nx, ny, a - 1, b)
        s1 == IF v1 < Inf THEN <<a - 1, b>> ELSE st
        v2 == Lookup(t, nx, ny, a, b - 1)
        s2 == IF v2 < Inf THEN <<a, b - 1>> ELSE s1
        v3 == Lookup(t, nx, ny, a - 1, b - 1)
    IN  IF v3 < Inf THEN <<a - 1, b - 1>> ELSE s2

\* (as it would be with the second block assigning step = (i-1, j-1))
Backstep_WrongStep(t, nx, ny, a, b, st) ==
    LET v1 == Lookup(t, nx, ny, a - 1, b)
        m1 == IF v1 < Inf THEN v1 ELSE Inf
        s1 == IF v1 < Inf THEN <<a - 1, b>> ELSE st
        v2 == Lookup(t, nx, ny, a, b - 1)
        m2 == IF v2 < m1 THEN v2 ELSE m1
        s2 == IF v2 < m1 THEN <<a - 1, b - 1>> ELSE s1
        v3 == Lookup(t, nx, ny, a - 1, b - 1)
    IN  IF v3 < m2 THEN <<a - 1, b - 1>> ELSE s2

Backstep(t, nx, ny, a, b, st) ==
    LET v1 == Lookup(t, nx, ny, a - 1, b)
        m1 == IF v1 < Inf THEN v1 ELSE Inf
        s1 == IF v1 < Inf THEN <<a - 1, b>> ELSE st
        v2 == Lookup(t, nx, ny, a, b - 1)
        m2 == IF v2 < m1 THEN v2 ELSE m1
        s2 == IF v2 < m1 THEN <<a, b - 1>> ELSE s1
        v3 == Lookup(t, nx, ny, a - 1, b - 1)
    IN  IF v3 < m2 THEN <<a - 1, b - 1>> ELSE s2

\* i = len(x); j = len(y); path = [(i, j)]
DtwStart ==
    /\ pc = "tabled"
    /\ i' = Nx
    /\ j' = Ny
    /\ path' = << <<Nx, Ny>> >>
    /\ pc' = "loop"
    /\ UNCHANGED <<x, y, xdim, ydim, table, evals, ti, tj, step, err>>

\* one iteration of the while loop
\* (as it would be if the loop marked the cell it leaves with table[i, j] = inf)
DtwStep_MarksVisited ==
    /\ pc = "loop"
    /\ LoopCond(i, j)
    /\ Len(path) < MaxPathLen
    /\ IF ~ReadsOK(Nx, Ny, i, j)
       THEN /\ pc' = "error"
            /\ err' = "IndexError"
            /\ UNCHANGED <<i, j, step, path, table>>
       ELSE LET s == Backstep(table, Nx, Ny, i, j, step)
            IN  IF s = Unbound
                THEN /\ pc' = "error"
                     /\ err' = "UnboundLocalError"
                     /\ UNCHANGED <<i, j, step, path, table>>
                ELSE /\ step' = s
                     /\ path' = <<s>> \o path
                     /\ i' = s[1]
                     /\ j' = s[2]
                     /\ table' = [table EXCEPT ![<<i, j>>] = Inf]
                     /\ UNCHANGED <<pc, err>>
    /\ UNCHANGED <<x, y, xdim, ydim, evals, ti, tj>>

DtwStep ==
    /\ pc = "loop"
    /\ LoopCond(i, j)
    /\ Len(path) < MaxPathLen
    /\ IF ~ReadsOK(Nx, Ny, i, j)
       THEN /\ pc' = "error"
            /\ err' = "IndexError"
            /\ UNCHANGED <<i, j, step, path>>
       ELSE LET s == Backstep(table, Nx, Ny, i, j, step)
            IN  IF s = Unbound
                THEN /\ pc' = "error"
                     /\ err' = "UnboundLocalError"
                     /\ UNCHANGED <<i, j, step, path>>
                ELSE /\ step' = s
                     /\ path' = <<s>> \o path
                     /\ i' = s[1]
                     /\ j' = s[2]
                     /\ UNCHANGED <<pc, err>>
    /\ UNCHANGED <<x, y, xdim, ydim, table, evals, ti, tj>>

\* return path
DtwReturn ==
    /\ pc = "loop"
    /\ ~LoopCond(i, j)
    /\ pc' = "done"
    /\ UNCHANGED <<x, y, xdim, ydim, table, evals, ti, tj, i, j, step, path, err>>

---------------------------------------------------------------------------
(* dtw_table and dtw as whole calls on scalar observations, for comparing  *)
(* the results of different calls                                          *)

\* the nested loops of dtw_table from cell (a, b) on
RECURSIVE FillFrom(_, _, _, _, _)
FillFrom(t, xs, ys, a, b) ==
    IF a > Len(xs) THEN t
    ELSE LET n == NextCell(a, b, Len(ys))
         IN  FillFrom([t EXCEPT ![<<a, b>>] = CellValue(t, xs, ys, a, b)],
                      xs, ys, n[1], n[2])

\* dtw_table(xs, ys)
TableOf(xs, ys) ==
    LET f == FirstCell(Len(xs), Len(ys))
    IN  FillFrom(InitTable(Len(xs), Len(ys)), xs, ys, f[1], f[2])

\* the while loop of dtw from state (a, b) on, with step = st and path = p
RECURSIVE Backtrack(_, _, _, _, _, _, _)
Backtrack(t, nx, ny, a, b, st, p) ==
    IF ~LoopCond(a, b) THEN [err |-> "none", path |-> p]
    ELSE IF Len(p) >= MaxPathLen THEN [err |-> "running", path |-> p]
    ELSE IF ~ReadsOK(nx, ny, a, b) THEN [err |-> "IndexError", path |-> p]
    ELSE LET s == Backstep(t, nx, ny, a, b, st)
         IN  IF s = Unbound THEN [err |-> "UnboundLocalError", path |-> p]
             ELSE Backtrack(t, nx, ny, s[1], s[2], s, <<s>> \o p)

\* dtw(xs, ys, t): the path returned, or the error raised
PathOf(xs, ys, t) ==
    Backtrack(t, Len(xs), Len(ys), Len(xs), Len(ys), Unbound,
              << <<Len(xs), Len(ys)>> >>)

---------------------------------------------------------------------------
(* table = dtw_table(x, y); path = dtw(x, y, table) *)

Init ==
    /\ \E in \in Inputs : x = in[1] /\ y = in[2]
    /\ xdim = Scalars(Nx)
    /\ ydim = Scalars(Ny)
    /\ evals = <<>>
    /\ table = <<>>
    /\ pc = "start"
    /\ ti = 0 /\ tj = 0
    /\ i = 0 /\ j = 0
    /\ step = Unbound
    /\ path = <<>>
    /\ err = "none"

Next ==
    \/ TableInit
    \/ TableFill
    \/ TableReturn
    \/ DtwStart
    \/ DtwStep
    \/ DtwReturn

Spec == Init /\ [][Next]_vars

---------------------------------------------------------------------------
(* dtw(x, y, table) on a table the caller supplies: any table of shape     *)
(* (len(x)+1, len(y)+1) with cells in 0..BTMaxVal or inf                   *)

BTVals == (0..BTMaxVal) \cup {Inf}

Zeros(n) == [k \in 1..n |-> 0]

InitBT ==
    /\ \E nx \in 0..BTMaxNx, ny \in 0..BTMaxNy :
          /\ x = Zeros(nx)
          /\ y = Zeros(ny)
          /\ table \in [Cells(nx, ny) -> BTVals]
    /\ xdim = Scalars(Nx)
    /\ ydim = Scalars(Ny)
    /\ evals = <<>>
    /\ pc = "tabled"
    /\ ti = 0 /\ tj = 0
    /\ i = 0 /\ j = 0
    /\ step = Unbound
    /\ path = <<>>
    /\ err = "none"

NextBT ==
    \/ DtwStart
    \/ DtwStep
    \/ DtwReturn

SpecBT == InitBT /\ [][NextBT]_vars

---------------------------------------------------------------------------
(* table = dtw_table(x, y); path = dtw(x, y, table) on sequences of vector *)
(* observations of length 2 or 3                                           *)

VecDims == {2, 3}

InitDim ==
    /\ \E in \in SeqsUpTo(Obs, DimMaxLen) \X SeqsUpTo(Obs, DimMaxLen) :
          x = in[1] /\ y = in[2]
    /\ xdim \in [1..Nx -> VecDims]
    /\ ydim \in [1..Ny -> VecDims]
    /\ evals = <<>>
    /\ table = <<>>
    /\ pc = "start"
    /\ ti = 0 /\ tj = 0
    /\ i = 0 /\ j = 0
    /\ step = Unbound
    /\ path = <<>>
    /\ err = "none"

SpecDim == InitDim /\ [][Next]_vars

\* the notebook runs each cell to its end: a call that can take a step takes it
SpecLive == Spec /\ WF_vars(Next)

---------------------------------------------------------------------------
(* Properties of the cost table *)

SetMin(S) == CHOOSE m \in S : \A n \in S : m <= n

Returned == pc \in {"tabled", "loop", "done", "error"}

NonEmpty == Nx >= 1 /\ Ny >= 1

Interior == (1..Nx) \X (1..Ny)

Up(c) == <<c[1] - 1, c[2]>>
Left(c) == <<c[1], c[2] - 1>>
Diag(c) == <<c[1] - 1, c[2] - 1>>

\* C1: in the table dtw_table returns for non-empty x and y, every interior
\* cell (i, j) equals distance(x[i-1], y[j-1]) plus the least of the cells
\* above, to the left and diagonally above-left.
C1_Recurrence ==
    (Returned /\ NonEmpty) =>
        \A c \in Interior :
            table[c] = Dist(x[c[1]], y[c[2]])
                         + SetMin({table[Up(c)], table[Left(c)], table[Diag(c)]})

\* a returned table in which each of the three neighbours is somewhere the
\* strict minimum
C1_Witness ==
    /\ pc = "tabled" /\ Nx >= 2 /\ Ny >= 2
    /\ \E c \in Interior :
          table[Up(c)] < table[Left(c)] /\ table[Up(c)] < table[Diag(c)]
    /\ \E c \in Interior :
          table[Left(c)] < table[Up(c)] /\ table[Left(c)] < table[Diag(c)]
    /\ \E c \in Interior :
          table[Diag(c)] < table[Up(c)] /\ table[Diag(c)] < table[Left(c)]

\* every alignment path from (1,1) to (a,b) with steps (+1,0), (0,+1), (+1,+1)
RECURSIVE AllPaths(_, _)
AllPaths(a, b) ==
    IF a < 1 \/ b < 1 THEN {}
    ELSE IF a = 1 /\ b = 1 THEN {<< <<1, 1>> >>}
    ELSE {Append(p, <<a, b>>) :
            p \in AllPaths(a - 1, b) \cup AllPaths(a, b - 1) \cup AllPaths(a - 1, b - 1)}

RECURSIVE SumDist(_, _)
SumDist(p, k) ==
    IF k = 0 THEN 0 ELSE SumDist(p, k - 1) + Dist(x[p[k][1]], y[p[k][2]])

PathCost(p) == SumDist(p, Len(p))

\* C2: for non-empty x and y (enumerated up to length MaxLen), every interior
\* cell of the returned table equals the least total distance over all
\* alignment paths from (1,1) to that cell; in particular table[Nx][Ny] is
\* the optimal alignment cost.
C2_Optimal ==
    (pc = "tabled" /\ NonEmpty /\ Nx <= MaxLen /\ Ny <= MaxLen) =>
        \A c \in Interior :
            table[c] = SetMin({PathCost(p) : p \in AllPaths(c[1], c[2])})

\* a returned table for inputs of full length in which the paths into the
\* final cell have at least three different costs and the least is not 0
C2_Witness ==
    /\ pc = "tabled" /\ Nx = MaxLen /\ Ny = MaxLen
    /\ Cardinality({PathCost(p) : p \in AllPaths(Nx, Ny)}) >= 3
    /\ table[<<Nx, Ny>>] > 0

\* C3: from its initialisation on, the table has table[0][0] = 0,
\* table[i][0] = inf for i in 1..Nx and table[0][j] = inf for j in 1..Ny,
\* for inputs of any length; the fill loop leaves row 0 and column 0 alone.
C3_Boundary ==
    pc # "start" =>
        /\ table[<<0, 0>>] = 0
        /\ \A a \in 1..Nx : table[<<a, 0>>] = Inf
        /\ \A b \in 1..Ny : table[<<0, b>>] = Inf

\* the fill loop has run over a table with sentinels in both directions
C3_Witness ==
    /\ pc = "tabled" /\ Nx >= 2 /\ Ny >= 2
    /\ table[<<Nx, Ny>>] < Inf
    /\ table[<<Nx, 0>>] = Inf /\ table[<<0, Ny>>] = Inf

---------------------------------------------------------------------------
(* Properties of the backtracking *)

Moves == {<<1, 0>>, <<0, 1>>, <<1, 1>>}

StepOf(p, k) == <<p[k + 1][1] - p[k][1], p[k + 1][2] - p[k][2]>>

\* C4: for non-empty x and y, dtw on the table of dtw_table returns (it does
\* not fail) a path whose first element is (0,0), whose last element is
\* (Nx,Ny) and whose consecutive elements differ by (+1,0), (0,+1) or (+1,+1).
C4_PathValid ==
    NonEmpty =>
        /\ pc # "error"
        /\ pc = "done" =>
              /\ path[1] = <<0, 0>>
              /\ path[Len(path)] = <<Nx, Ny>>
              /\ \A k \in 1..(Len(path) - 1) : StepOf(path, k) \in Moves

\* a returned path that uses each of the three moves
C4_Witness ==
    /\ pc = "done" /\ NonEmpty
    /\ \A m \in Moves : \E k \in 1..(Len(path) - 1) : StepOf(path, k) = m

RECURSIVE SumInterior(_, _)
SumInterior(p, k) ==
    IF k = 0 THEN 0
    ELSE SumInterior(p, k - 1)
           + (IF p[k][1] > 0 /\ p[k][2] > 0 THEN Dist(x[p[k][1]], y[p[k][2]]) ELSE 0)

\* C5: for non-empty x and y, the distances distance(x[i-1], y[j-1]) summed
\* over the elements (i, j) of the returned path with i > 0 and j > 0 equal
\* table[Nx][Ny].
C5_CostConsistent ==
    (pc = "done" /\ NonEmpty) =>
        SumInterior(path, Len(path)) = table[<<Nx, Ny>>]

\* a returned path of positive total cost with a step that is not diagonal
C5_Witness ==
    /\ pc = "done" /\ Nx >= 2 /\ Ny >= 2
    /\ table[<<Nx, Ny>>] > 0
    /\ \E k \in 1..(Len(path) - 1) : StepOf(path, k) # <<1, 1>>

\* a candidate with a coordinate of -1 is unavailable: its value is infinite
CandValue(c) == IF c[1] < 0 \/ c[2] < 0 THEN Inf ELSE table[c]

Candidates(c) == <<Up(c), Left(c), Diag(c)>>

LeastCand(c) == SetMin({CandValue(Candidates(c)[n]) : n \in 1..3})

\* the earliest candidate of (i-1,j), (i,j-1), (i-1,j-1) with the least value
FirstLeast(c) ==
    LET n == SetMin({m \in 1..3 : CandValue(Candidates(c)[m]) = LeastCand(c)})
    IN  Candidates(c)[n]

AllCandInf(c) == LeastCand(c) = Inf

\* C6: every predecessor the backtracker has chosen (each path element but
\* the last, chosen from the state that follows it in the path) has the least
\* table value among (i-1,j), (i,j-1), (i-1,j-1), and among tied candidates
\* it is the earliest in that order.
C6_TieBreak ==
    pc \in {"loop", "done", "error"} =>
        \A k \in 1..(Len(path) - 1) :
            /\ ~AllCandInf(path[k + 1])
            /\ path[k] = FirstLeast(path[k + 1])

\* a finished run in which a tie between a step in x and another candidate
\* was decided for the step in x, and a tie between a step in y and the
\* diagonal for the step in y
C6_Witness ==
    /\ pc = "done" /\ NonEmpty
    /\ \E k \in 1..(Len(path) - 1) :
          LET c == path[k + 1]
          IN  /\ table[Up(c)] < Inf
              /\ table[Up(c)] = table[Left(c)]
              /\ table[Up(c)] <= table[Diag(c)]
              /\ path[k] = Up(c)
    /\ \E k \in 1..(Len(path) - 1) :
          LET c == path[k + 1]
          IN  /\ table[Left(c)] < table[Up(c)]
              /\ table[Left(c)] = table[Diag(c)]
              /\ path[k] = Left(c)

\* the cost table and the path printed in the notebook
ExampleTable ==
    << <<  0, Inf, Inf, Inf, Inf, Inf, Inf, Inf, Inf, Inf>>,
       <<Inf,   1,   4,   8,  11,  12,  13,  15,  16,  16>>,
       <<Inf,   4,   2,   2,   3,   6,  11,  17,  20,  20>>,
       <<Inf,   7,   3,   2,   3,   6,  11,  17,  22,  24>>,
       <<Inf,   8,   6,   6,   5,   4,   5,   7,   8,   8>>,
       <<Inf,  13,  13,  14,  12,   9,   7,   7,  10,  12>>,
       <<Inf,  18,  20,  21,  19,  14,  10,   9,  10,  14>>,
       <<Inf,  19,  21,  24,  22,  15,  11,  11,  10,  10>> >>

ExamplePath ==
    << <<0, 0>>, <<1, 1>>, <<2, 2>>, <<2, 3>>, <<3, 3>>, <<3, 4>>, <<4, 5>>,
       <<4, 6>>, <<5, 7>>, <<6, 7>>, <<7, 8>>, <<7, 9>> >>

IsExample == x = ExampleX /\ y = ExampleY

\* C7: for x = [0,4,4,0,-4,-4,0] and y = [1,3,4,3,1,-1,-2,-1,0] dtw_table
\* returns the table printed in the notebook (table[7][9] = 10) and dtw
\* returns the printed path.
C7_Example ==
    IsExample =>
        /\ pc # "error"
        /\ Returned => \A c \in Cells(7, 9) : table[c] = ExampleTable[c[1] + 1][c[2] + 1]
        /\ pc = "done" => path = ExamplePath

\* the example has run to the end
C7_Witness == IsExample /\ pc = "done" /\ Len(path) = 12 /\ table[<<7, 9>>] = 10

ExactlyOneEmpty == (Nx = 0 /\ Ny >= 1) \/ (Nx >= 1 /\ Ny = 0)

\* C8: when exactly one of x and y is empty, computing the alignment fails
\* and returns no path, whatever the length of the other sequence.
C8_OneEmptyFails == ExactlyOneEmpty => pc # "done"

\* the three values an iteration in state (a, b) compares with minval are
\* all infinite
AllReadInf(a, b) ==
    /\ ReadsOK(Nx, Ny, a, b)
    /\ Lookup(table, Nx, Ny, a - 1, b) = Inf
    /\ Lookup(table, Nx, Ny, a, b - 1) = Inf
    /\ Lookup(table, Nx, Ny, a - 1, b - 1) = Inf

\* C9: for any table of shape (Nx+1) x (Ny+1), an iteration of the
\* backtracker that starts in a non-terminal state whose three candidate
\* predecessor values are all infinite ends in failure, on the first and on
\* any later iteration: no predecessor is prepended and the loop does not
\* go on.
C9_AllInfFails ==
    [][(pc = "loop" /\ LoopCond(i, j) /\ AllReadInf(i, j))
          => (pc' = "error" /\ path' = path)]_vars

BothEmpty == Nx = 0 /\ Ny = 0

\* C10: when x and y are both empty, dtw_table returns the 1 x 1 table [[0]]
\* and dtw returns the path [(0,0)]; neither fails.
C10_BothEmpty ==
    BothEmpty =>
        /\ pc # "error"
        /\ Returned => table = [c \in {<<0, 0>>} |-> 0]
        /\ pc = "loop" => path = << <<0, 0>> >>
        /\ pc = "done" => path = << <<0, 0>> >>

\* dtw has returned for empty inputs
C10_Witness == BothEmpty /\ pc = "done" /\ Len(path) = 1

---------------------------------------------------------------------------
(* Further properties of the cost table *)

SetMax(S) == CHOOSE m \in S : \A n \in S : m >= n

Preds(c) == {table[Up(c)], table[Left(c)], table[Diag(c)]}

\* C11 as stated: in the returned table of non-empty x and y every interior
\* cell is at least the greatest of the cells above, to the left and
\* diagonally above-left.
C11_AtLeastMax ==
    (Returned /\ NonEmpty) =>
        \A c \in Interior : table[c] >= SetMax(Preds(c))

\* C11 as amended: in the returned table of non-empty x and y every interior
\* cell is at least the least of the cells above, to the left and diagonally
\* above-left.
C11_AtLeastMin ==
    (Returned /\ NonEmpty) =>
        \A c \in Interior : table[c] >= SetMin(Preds(c))

\* a returned table with an interior cell below one of its three finite
\* predecessors
C11_Witness ==
    /\ pc = "tabled" /\ NonEmpty
    /\ \E c \in Interior :
          /\ SetMax(Preds(c)) < Inf
          /\ table[c] < SetMax(Preds(c))
          /\ table[c] >= SetMin(Preds(c))

\* C12: in the returned table of non-empty x and y every interior cell is
\* finite and not negative.
C12_InteriorFinite ==
    (Returned /\ NonEmpty) =>
        \A c \in Interior : 0 <= table[c] /\ table[c] < Inf

\* a returned table with an interior cell that is positive and one that is 0
C12_Witness ==
    /\ pc = "tabled" /\ NonEmpty
    /\ \E c \in Interior : table[c] > 0
    /\ \E c \in Interior : table[c] = 0

SomeEmpty == Nx = 0 \/ Ny = 0

\* C13: when x or y is empty, dtw_table returns without error a table of
\* shape (Nx+1) x (Ny+1) whose only finite cell is (0,0), holding 0.
C13_EmptyTable ==
    SomeEmpty =>
        /\ pc \in {"start", "fill"} => err = "none"
        /\ Returned =>
              /\ DOMAIN table = Cells(Nx, Ny)
              /\ table[<<0, 0>>] = 0
              /\ {c \in DOMAIN table : table[c] < Inf} = {<<0, 0>>}

\* dtw_table has returned for an empty x and a y of full length
C13_Witness ==
    /\ pc = "tabled" /\ Nx = 0 /\ Ny = MaxLen
    /\ evals = <<>>
    /\ Cardinality(DOMAIN table) = MaxLen + 1

---------------------------------------------------------------------------
(* The inputs exchanged *)

\* the table of the call with the sequences exchanged; the distance is then
\* asked for (y[j-1], x[i-1]), its arguments in the other order
SwappedTable == TableOf(y, x)

SwappedPath == PathOf(y, x, SwappedTable)

TransposedPath(p) == [k \in 1..Len(p) |-> <<p[k][2], p[k][1]>>]

\* C14: for x and y of any length the table built for (y, x) is the
\* transpose of the table built for (x, y).
C14_TableTransposed ==
    Returned =>
        LET t == SwappedTable
        IN  /\ DOMAIN t = Cells(Ny, Nx)
            /\ \A c \in Cells(Nx, Ny) : t[<<c[2], c[1]>>] = table[c]

\* a returned table that is not square and not symmetric in its interior
C14_Witness ==
    /\ pc = "tabled" /\ Nx >= 2 /\ Ny > Nx
    /\ table[<<1, 2>>] # table[<<2, 1>>]
    /\ SwappedTable[<<2, 1>>] = table[<<1, 2>>]

\* in state c the step in x and the step in y both hold the least value
TieUpLeft(c) ==
    /\ c[1] >= 1 /\ c[2] >= 1
    /\ table[Up(c)] = table[Left(c)]
    /\ table[Up(c)] <= table[Diag(c)]
    /\ table[Up(c)] < Inf

\* a state the backtracking of (x, y) chose a predecessor from
TieVisited == \E k \in 2..Len(path) : TieUpLeft(path[k])

\* C15 as stated: for non-empty x and y the path reconstructed for (y, x) is
\* the transpose of the path reconstructed for (x, y), position by position.
C15_PathTransposed ==
    (pc = "done" /\ NonEmpty) =>
        LET r == SwappedPath
        IN  /\ r.err = "none"
            /\ r.path = TransposedPath(path)

\* C15 as amended: for non-empty x and y the path reconstructed for (y, x)
\* is the transpose of the path reconstructed for (x, y) exactly when the
\* backtracking of (x, y) visits no state in which (i-1,j) and (i,j-1) tie
\* for the least value; at such a tie both calls step in their own first
\* sequence and the paths differ.
C15_PathTransposedUnlessTie ==
    (pc = "done" /\ NonEmpty) =>
        LET r == SwappedPath
        IN  /\ r.err = "none"
            /\ (r.path = TransposedPath(path)) <=> ~TieVisited

\* a returned path without such a tie that is not its own transpose and
\* is the transpose of the path of the exchanged call
C15_Witness ==
    /\ pc = "done" /\ NonEmpty
    /\ ~TieVisited
    /\ TransposedPath(path) # path
    /\ SwappedPath.path = TransposedPath(path)

---------------------------------------------------------------------------
(* Single elements, failing distances, termination *)

\* C16: for x = [a] and y = [b] the returned table has table[1][1] = |a - b|
\* (0 when a = b) and dtw returns exactly the path [(0,0),(1,1)].
C16_SingleElement ==
    (Nx = 1 /\ Ny = 1) =>
        /\ pc # "error"
        /\ Returned =>
              /\ table[<<1, 1>>] = (IF x[1] >= y[1] THEN x[1] - y[1] ELSE y[1] - x[1])
              /\ x[1] = y[1] => table[<<1, 1>>] = 0
        /\ pc = "done" => path = << <<0, 0>>, <<1, 1>> >>

\* dtw has returned for two equal single elements
C16_Witness ==
    /\ pc = "done" /\ Nx = 1 /\ Ny = 1
    /\ x[1] = y[1]
    /\ table[<<1, 1>>] = 0

\* the observations of cell c cannot be subtracted from one another
Incompatible(c) ==
    /\ xdim[c[1]] # ydim[c[2]]
    /\ xdim[c[1]] > 1
    /\ ydim[c[2]] > 1

\* c comes before d in row-major order
Before(c, d) == c[1] < d[1] \/ (c[1] = d[1] /\ c[2] < d[2])

FailingCells == {c \in Interior : Incompatible(c)}

\* C18: if the distance fails on some pair (x[i-1], y[j-1]), dtw_table ends
\* with that error at the first such cell in row-major order, returns no
\* table and asks for no distance after it; if the distance fails on no
\* pair, dtw_table does not fail.
C18_DistanceFailure ==
    /\ FailingCells = {} => err # "ValueError"
    /\ FailingCells # {} => pc \in {"start", "fill", "error"}
    /\ (pc = "error" /\ err = "ValueError") =>
          /\ <<ti, tj>> \in FailingCells
          /\ \A d \in FailingCells : ~Before(d, <<ti, tj>>)
          /\ Len(evals) = (ti - 1) * Ny + tj
          /\ evals[Len(evals)] = <<ti, tj>>
          /\ \A k \in 1..(Len(evals) - 1) : Before(evals[k], <<ti, tj>>)
          /\ path = <<>>

\* dtw_table has failed after at least one good cell and before another
\* failing one
C18_Witness ==
    /\ pc = "error" /\ err = "ValueError"
    /\ Len(evals) >= 2
    /\ \E d \in FailingCells : Before(<<ti, tj>>, d)

\* C19: for any table of shape (Nx+1) x (Ny+1), every element (a, b) of the
\* path the backtracker builds has 0 <= a <= Nx and 0 <= b <= Ny: a
\* candidate with a coordinate of -1 is never selected.
C19_PathInTable ==
    \A k \in 1..Len(path) : path[k] \in Cells(Nx, Ny)

\* the number of iterations the while loop of dtw has made
Iterations == IF path = <<>> THEN 0 ELSE Len(path) - 1

\* C20: for non-empty x and y, on the table of dtw_table, every iteration of
\* the backtracking loop makes i + j strictly smaller, the loop makes at
\* most Nx + Ny iterations and dtw returns, in state (0,0).
C20_Terminates ==
    /\ [](NonEmpty => /\ Iterations <= Nx + Ny
                      /\ pc = "done" => (i = 0 /\ j = 0))
    /\ [][(NonEmpty /\ pc = "loop" /\ <<i, j, path>>' # <<i, j, path>>)
             => (pc' = "loop" /\ i' + j' < i + j)]_vars
    /\ (NonEmpty ~> pc = "done")

\* a run that needed the most iterations there can be
C20_Witness ==
    /\ pc = "done" /\ Nx >= 2 /\ Ny >= 2
    /\ i = 0 /\ j = 0
    /\ Iterations = Nx + Ny - 1

---------------------------------------------------------------------------
(* The order of the fill *)

\* the cells dtw_table has computed so far
Computed == {evals[k] : k \in 1..Len(evals)}

\* a cell that will not be written any more: a sentinel or a computed cell
Settled(c) == c[1] = 0 \/ c[2] = 0 \/ c \in Computed

\* C21: when dtw_table is about to compute cell (i, j), the cells (i-1,j),
\* (i,j-1) and (i-1,j-1) are sentinels or computed already and (i, j) itself
\* is not; a computed cell never changes again; and the returned table has
\* every interior cell computed exactly once.
C21_FillOrder ==
    /\ []((pc = "fill" /\ ti <= Nx) =>
             /\ Settled(Up(<<ti, tj>>))
             /\ Settled(Left(<<ti, tj>>))
             /\ Settled(Diag(<<ti, tj>>))
             /\ <<ti, tj>> \notin Computed)
    /\ [][\A c \in Computed : table'[c] = table[c]]_vars
    /\ [](Returned => /\ Computed = Interior
                      /\ Len(evals) = Nx * Ny)

\* dtw_table is about to compute a cell whose three neighbours are interior
C21_Witness ==
    /\ pc = "fill" /\ ti >= 2 /\ tj >= 2 /\ ti <= Nx
    /\ {Up(<<ti, tj>>), Left(<<ti, tj>>), Diag(<<ti, tj>>)} \subseteq Computed

---------------------------------------------------------------------------
(* dtw_table with its interior cells computed in any order that respects   *)
(* the dependencies of a cell on its upper, left and upper-left neighbour  *)
(* (the alternative the specification allows to an implementer; the cell   *)
(* initialisation and the cell value are those of dtw_table)               *)

AnyMaxLen == 2

InitAny ==
    /\ \E in \in SeqsUpTo(Obs, AnyMaxLen) \X SeqsUpTo(Obs, AnyMaxLen) :
          x = in[1] /\ y = in[2]
    /\ xdim = Scalars(Nx)
    /\ ydim = Scalars(Ny)
    /\ evals = <<>>
    /\ table = <<>>
    /\ pc = "start"
    /\ ti = 0 /\ tj = 0
    /\ i = 0 /\ j = 0
    /\ step = Unbound
    /\ path = <<>>
    /\ err = "none"

\* any cell not yet computed whose three neighbours are settled
Ready == {c \in Interior \ Computed :
             Settled(Up(c)) /\ Settled(Left(c)) /\ Settled(Diag(c))}

TableFillAny ==
    /\ pc = "fill"
    /\ \E c \in Ready :
          /\ evals' = Append(evals, c)
          /\ table' = [table EXCEPT ![c] = CellValue(table, x, y, c[1], c[2])]
    /\ UNCHANGED <<x, y, xdim, ydim, pc, ti, tj, i, j, step, path, err>>

TableReturnAny ==
    /\ pc = "fill"
    /\ Computed = Interior
    /\ pc' = "tabled"
    /\ UNCHANGED <<x, y, xdim, ydim, table, evals, ti, tj, i, j, step, path, err>>

NextAny ==
    \/ TableInit
    \/ TableFillAny
    \/ TableReturnAny

SpecAny == InitAny /\ [][NextAny]_vars

\* C22: a fill of the interior cells in any order that respects the
\* dependencies returns the table of the row-major fill of dtw_table.
C22_AnyOrder == pc = "tabled" => table = TableOf(x, y)

\* a table returned by a fill that went down the first column before it
\* finished the first row
C22_Witness ==
    /\ pc = "tabled" /\ Nx = 2 /\ Ny = 2
    /\ evals[2] = <<2, 1>>
    /\ table[<<2, 2>>] > 0

---------------------------------------------------------------------------
(* Prefixes *)

\* x[:n]
Prefix(s, n) == SubSeq(s, 1, n)

\* C23: the table of the prefixes x[:a], y[:b] is the top-left block of
\* (a+1) x (b+1) cells of the table of x, y; so cell (a, b) of the table is
\* the last cell of the table of the prefixes.
C23_PrefixBlock ==
    pc = "tabled" =>
        \A a \in 0..Nx, b \in 0..Ny :
            LET t == TableOf(Prefix(x, a), Prefix(y, b))
            IN  /\ DOMAIN t = Cells(a, b)
                /\ \A c \in Cells(a, b) : t[c] = table[c]

\* a table whose proper top-left blocks end in a cell other than its own last
C23_Witness ==
    /\ pc = "tabled" /\ Nx >= 2 /\ Ny >= 2
    /\ table[<<Nx - 1, Ny - 1>>] # table[<<Nx, Ny>>]
    /\ table[<<Nx - 1, Ny>>] # table[<<Nx, Ny>>]

---------------------------------------------------------------------------
(* The sanity check of the notebook:                                       *)
(* sum(abs(x[i-1] - y[j-1]) for (i, j) in path if i >= 0 and j >= 0)       *)

\* s[k] of a Python sequence: k counts from 0 and a negative k from the end
PyIndex(s, k) == IF k >= 0 THEN s[k + 1] ELSE s[Len(s) + k + 1]

\* the term of one path element, 0 for an element the filter leaves out
SanityTerm(xs, ys, e) ==
    IF e[1] >= 0 /\ e[2] >= 0
    THEN Abs(PyIndex(xs, e[1] - 1) - PyIndex(ys, e[2] - 1))
    ELSE 0

RECURSIVE SanitySum(_, _, _)
SanitySum(xs, ys, p) ==
    IF p = <<>> THEN 0
    ELSE SanityTerm(xs, ys, Head(p)) + SanitySum(xs, ys, Tail(p))

\* C24: for non-empty x, y the total of the sanity check over the returned
\* path equals table[Nx][Ny].
C24_SanityCheck ==
    (pc = "done" /\ NonEmpty) => SanitySum(x, y, path) = table[<<Nx, Ny>>]

---------------------------------------------------------------------------
(* Evaluations of the distance *)

\* how often dtw_table has evaluated the distance for cell c
EvalCount(c) == Cardinality({k \in DOMAIN evals : evals[k] = c})

\* C25: dtw_table evaluates the distance once for each pair (i, j) of
\* 1..Nx and 1..Ny, Nx * Ny times in all, for no other pair, and not at all
\* when x or y is empty; dtw evaluates none.
C25_DistanceEvals ==
    Returned =>
        /\ \A c \in Interior : EvalCount(c) = 1
        /\ Len(evals) = Nx * Ny
        /\ Computed \subseteq Interior
        /\ SomeEmpty => evals = <<>>

\* a returned table of at least 2 x 2 interior cells
C25_Witness ==
    /\ pc = "tabled" /\ Nx >= 2 /\ Ny >= 2
    /\ EvalCount(<<Nx, 1>>) = 1

---------------------------------------------------------------------------
(* dtw reads its arguments only *)

\* C26: no step of dtw changes table, x or y, so when dtw has returned or
\* failed the table is still the one dtw_table returned for the same x, y.
C26_ArgumentsUnchanged ==
    /\ [][(pc \in {"tabled", "loop"}) =>
              (table' = table /\ x' = x /\ y' = y)]_vars
    /\ [](pc \in {"done", "error"} => table = TableOf(x, y))

\* dtw has returned a path of several steps
C26_Witness ==
    /\ pc = "done" /\ NonEmpty
    /\ Len(path) >= 4
    /\ table[<<Nx, Ny>>] > 0

---------------------------------------------------------------------------
(* Termination of dtw on any table of the right shape *)

\* C27: on every table of shape (Nx+1) x (Ny+1) each iteration of the while
\* loop that extends the path chooses a predecessor afresh and moves (i, j);
\* none inserts the step of an earlier iteration again.
C27_NoStaleStep ==
    [][(pc = "loop" /\ path' # path) =>
          (step' # step /\ <<i', j'>> # <<i, j>>)]_vars

---------------------------------------------------------------------------
(* The path and the sentinel cells *)

\* C28: for non-empty x, y the path never holds a cell of row 0 or column 0
\* other than (0, 0); in the returned path every element but the first is
\* an interior cell and the second element is (1, 1).
C28_NoSentinel ==
    NonEmpty =>
        /\ pc \in {"loop", "done"} =>
              \A k \in 1..Len(path) :
                  path[k] = <<0, 0>> \/ path[k] \in Interior
        /\ pc = "done" =>
              /\ Len(path) >= 2
              /\ path[1] = <<0, 0>>
              /\ \A k \in 2..Len(path) : path[k] \in Interior
              /\ path[2] = <<1, 1>>

\* a returned path that runs along row 1 or column 1 before it reaches (1, 1)
C28_Witness ==
    /\ pc = "done" /\ Nx >= 2 /\ Ny >= 2
    /\ Len(path) >= 4
    /\ path[3] \in {<<1, 2>>, <<2, 1>>}

---------------------------------------------------------------------------
(* Table values along the path *)

\* C29: for consecutive elements p, q of the returned path with q interior,
\* table[q] = table[p] + |x[q.i-1] - y[q.j-1]|; so the table values along the
\* path never decrease, from 0 at the first element to table[Nx][Ny] at the
\* last.
C29_PathValues ==
    (pc = "done" /\ NonEmpty) =>
        /\ \A k \in 1..(Len(path) - 1) :
              LET p == path[k]
                  q == path[k + 1]
              IN  q \in Interior =>
                     /\ table[q] = Plus(table[p], Dist(x[q[1]], y[q[2]]))
                     /\ table[p] <= table[q]
        /\ table[path[1]] = 0
        /\ table[path[Len(path)]] = table[<<Nx, Ny>>]

\* a returned path along which the table value rises more than once
C29_Witness ==
    /\ pc = "done" /\ NonEmpty
    /\ Len(path) >= 4
    /\ table[path[2]] < table[path[3]]
    /\ table[path[3]] < table[path[4]]

---------------------------------------------------------------------------
(* The first interior row and column *)

\* |x[0] - y[0]| + ... + |x[0] - y[n-1]|
RECURSIVE RowSum(_, _, _)
RowSum(xs, ys, n) ==
    IF n = 0 THEN 0 ELSE RowSum(xs, ys, n - 1) + Dist(xs[1], ys[n])

\* |x[0] - y[0]| + ... + |x[n-1] - y[0]|
RECURSIVE ColSum(_, _, _)
ColSum(xs, ys, n) ==
    IF n = 0 THEN 0 ELSE ColSum(xs, ys, n - 1) + Dist(xs[n], ys[1])

\* C30: in a returned table of non-empty x, y, table[1][j] is the sum of the
\* distances of x[0] to y[0..j-1] and table[i][1] the sum of the distances
\* of x[0..i-1] to y[0].
C30_RunningSums ==
    (pc = "tabled" /\ NonEmpty) =>
        /\ \A b \in 1..Ny : table[<<1, b>>] = RowSum(x, y, b)
        /\ \A a \in 1..Nx : table[<<a, 1>>] = ColSum(x, y, a)

\* a returned table whose first row and first column sum at least two
\* distances that are not 0
C30_Witness ==
    /\ pc = "tabled" /\ Nx >= 2 /\ Ny >= 2
    /\ table[<<1, 1>>] > 0
    /\ table[<<1, 2>>] > table[<<1, 1>>]
    /\ table[<<2, 1>>] > table[<<1, 1>>]

===========================================================================
